---- MODULE Spec2Model ----
(***************************************************************************)
(* A model of transip_dns: the access token lifecycle (accesstoken.py),    *)
(* the registrar client's retry-on-conflict loop (transip_interface) and   *)
(* the record reconciliation of transip_dns.py.                            *)
(*                                                                         *)
(* The specifications share the variables:                                 *)
(*   SpecToken     the AccessToken object under a clock that advances      *)
(*   SpecRegistrar one TransipInterface executing registrar calls          *)
(*   SpecClassify  record_state_in_domain applied to bounded inputs        *)
(*   SpecKey       AccessToken construction on bounded key texts           *)
(*   SpecRecord    DnsRecord construction                                  *)
(*   SpecRun       transip_dns_main against the records of a zone          *)
(*   SpecCmdline   process_commandline on bounded argument lists           *)
(* Each leaves the variables of the other parts untouched.                 *)
(*                                                                         *)
(* Time is counted in whole ticks.  The code compares floats               *)
(* (time_elapsed > time_to_live * 0.9); the model compares the same        *)
(* quantities exactly, multiplied by ten: 10 * elapsed > 9 * time_to_live. *)
(***************************************************************************)
EXTENDS Integers, Sequences, FiniteSets, TLC

VARIABLES
    \* ---- AccessToken (accesstoken.py) ----
    now,            \* the wall clock, time()
    time_to_live,   \* self.time_to_live, fixed at construction
    _token,         \* self._token, NoToken until the first fetch
    _token_epoch,   \* self._token_epoch
    lastGet,        \* observation of the last __repr__ call
    carried,        \* observation of the last authenticated request
    \* ---- TransipInterface (registrar client) ----
    retry,          \* configured retry count
    call,           \* the registrar call in progress
    client,         \* how the TransipInterface was built, what it sent
    \* ---- record reconciliation (transip_dns.py) ----
    dns_record,     \* the targeted record (DnsRecord)
    domain_records, \* the zone listing
    outcome,        \* what record_state_in_domain did
    dispatch,       \* what set_dns_record / delete_dns_record did
    run,            \* how main() ended
    \* ---- AccessToken construction (accesstoken.py) ----
    key,            \* the key text, how it was given and what became of it
    \* ---- DnsRecord construction (transip_interface) ----
    new_record,     \* the arguments of DnsRecord(...) and what became of them
    \* ---- one invocation of transip_dns_main (transip_dns.py) ----
    held_zone,      \* the records the registrar holds for the zone
    args,           \* the parsed arguments, argparse.Namespace
    inv,            \* what the invocation did
    \* ---- process_commandline (env_params.py, transip_dns.py) ----
    cmdline         \* sys.argv, os.environ and the parsed options

tokenVars == <<now, time_to_live, _token, _token_epoch, lastGet, carried>>
registrarVars == <<retry, call, client>>
classifyVars == <<dns_record, domain_records, outcome, dispatch, run>>
keyVars == <<key>>
recordVars == <<new_record>>
runVars == <<held_zone, args, inv>>
cmdlineVars == <<cmdline>>
vars == <<now, time_to_live, _token, _token_epoch, lastGet, carried,
          retry, call, client, dns_record, domain_records, outcome, dispatch,
          run,
          key, new_record, held_zone, args, inv, cmdline>>

-----------------------------------------------------------------------------
(* Bounds of the model *)

\* the clock stops advancing here
MaxTime == 14
\* longest time the POST to the authentication endpoint takes
MaxLatency == 1
\* largest retry count a TransipInterface is configured with
MaxRetry == 3
\* longest zone listing
MaxRecords == 2

\* Python's None where a string is expected
None == "None"

-----------------------------------------------------------------------------
(* AccessToken *)

\* Python's None where a number is expected (self._token before a fetch)
NoToken == -1

\* expiration_time values the object is constructed with
TTLs == {5, 10}

\* _token_request_parameters: the claim payload; nonce is time() when built
_token_request_parameters(t) ==
    [nonce |-> t, expiration_time |-> time_to_live]

\* The authentication endpoint's answer to an accepted request: a token
\* whose identity derives from the payload's nonce.
response_token(payload) == payload.nonce

\* _token_nearly_expired with >= in place of >
nearly_expired_at_threshold(t) ==
    10 * (t - _token_epoch) >= 9 * time_to_live

\* _token_nearly_expired without the 10% margin
nearly_expired_no_margin(t) ==
    10 * (t - _token_epoch) > 10 * time_to_live

\* _token_nearly_expired: time_elapsed > time_to_live * 0.9, time() = t
_token_nearly_expired(t) ==
    10 * (t - _token_epoch) > 9 * time_to_live

\* _request_token that stores the token and leaves the issue time alone
request_token_keeps_epoch(status, latency) ==
    /\ now' = now + latency
    /\ IF status = "ok"
       THEN /\ _token' = response_token(_token_request_parameters(now))
            /\ _token_epoch' = _token_epoch
       ELSE UNCHANGED <<_token, _token_epoch>>

\* _request_token that records the issue time before raise_for_status
request_token_stamps_first(status, latency) ==
    /\ now' = now + latency
    /\ _token_epoch' = now + latency
    /\ IF status = "ok"
       THEN _token' = response_token(_token_request_parameters(now))
       ELSE UNCHANGED _token

\* _request_token: build the payload, POST it (the POST takes `latency`),
\* raise_for_status, then store the token and time() as the issue time.
\* An error status raises before either field is assigned.
_request_token(status, latency) ==
    /\ now' = now + latency
    /\ IF status = "ok"
       THEN /\ _token' = response_token(_token_request_parameters(now))
            /\ _token_epoch' = now + latency
       ELSE UNCHANGED <<_token, _token_epoch>>

\* __repr__: the body of getToken.  lastGet records what the call saw and did.
repr_body(status, latency) ==
    IF _token = NoToken \/ _token_nearly_expired(now)
    THEN /\ _request_token(status, latency)
         /\ lastGet' = [kind |-> IF status = "ok" THEN "returned" ELSE "raised",
                        at |-> now,
                        tokenBefore |-> _token,
                        epochBefore |-> _token_epoch,
                        requests |-> 1,
                        token |-> IF status = "ok" THEN _token' ELSE NoToken,
                        epochAfter |-> _token_epoch',
                        returnedAt |-> now']
    ELSE /\ UNCHANGED <<now, _token, _token_epoch>>
         /\ lastGet' = [kind |-> "returned",
                        at |-> now,
                        tokenBefore |-> _token,
                        epochBefore |-> _token_epoch,
                        requests |-> 0,
                        token |-> _token,
                        epochAfter |-> _token_epoch,
                        returnedAt |-> now]

\* a caller reads the token: str(token)
GetToken ==
    \E status \in {"ok", "error"}, latency \in 0..MaxLatency :
        /\ now + latency <= MaxTime
        /\ repr_body(status, latency)
        /\ UNCHANGED <<time_to_live, carried>>
        /\ UNCHANGED <<registrarVars, classifyVars, keyVars, recordVars,
                       runVars, cmdlineVars>>

\* One authenticated request of the registrar client: the bearer token is
\* taken from the AccessToken when the request is built; if the fetch raises,
\* no request is sent.
AuthenticatedRequest ==
    \E status \in {"ok", "error"}, latency \in 0..MaxLatency :
        /\ now + latency <= MaxTime
        /\ repr_body(status, latency)
        /\ carried' = [kind |-> IF lastGet'.kind = "returned"
                                THEN "sent" ELSE "aborted",
                       token |-> lastGet'.token,
                       issued |-> _token_epoch',
                       sent |-> now',
                       at |-> now,
                       tokenBefore |-> _token,
                       epochBefore |-> _token_epoch]
        /\ UNCHANGED time_to_live
        /\ UNCHANGED <<registrarVars, classifyVars, keyVars, recordVars,
                       runVars, cmdlineVars>>

\* the clock advances
Tick ==
    /\ now < MaxTime
    /\ now' = now + 1
    /\ UNCHANGED <<time_to_live, _token, _token_epoch, lastGet, carried>>
    /\ UNCHANGED <<registrarVars, classifyVars, keyVars, recordVars,
                   runVars, cmdlineVars>>

NoGet ==
    [kind |-> "none", at |-> 0, tokenBefore |-> NoToken, epochBefore |-> 0,
     requests |-> 0, token |-> NoToken, epochAfter |-> 0, returnedAt |-> 0]

NoRequest ==
    [kind |-> "none", token |-> NoToken, issued |-> 0, sent |-> 0,
     at |-> 0, tokenBefore |-> NoToken, epochBefore |-> 0]

\* AccessToken.__init__: no token, issue time float(0)
InitToken ==
    /\ now = 0
    /\ time_to_live \in TTLs
    /\ _token = NoToken
    /\ _token_epoch = 0
    /\ lastGet = NoGet
    /\ carried = NoRequest

IdleToken ==
    /\ now = 0
    /\ time_to_live = 10
    /\ _token = NoToken
    /\ _token_epoch = 0
    /\ lastGet = NoGet
    /\ carried = NoRequest

-----------------------------------------------------------------------------
(* TransipInterface: the registrar calls and their retry on conflict *)

\* the four registrar calls: {get,post,patch,delete}_dns_entry
Methods == {"get", "post", "patch", "delete"}

\* the statuses the zone records endpoint answers with
Statuses == {200, 204, 404, 406, 409}

\* requests' Response.ok / raise_for_status: 4xx and 5xx raise HTTPError
is_error(status) == status >= 400

\* retry decision that retries every error status
retry_on_any_error(status, attempt) == is_error(status) /\ attempt < retry

\* retry decision that allows one retry too many
retry_once_more(status, attempt) == status = 409 /\ attempt <= retry

\* retry decision with one retry fewer
retry_one_less(status, attempt) == status = 409 /\ attempt + 1 < retry

\* the retry decision: a 409 is retried while retries are left
should_retry(status, attempt) == status = 409 /\ attempt < retry

\* TransipInterface.__init__: a client is built from a login and key or
\* from an access token; a token next to a login or a key is a ValueError
TransipInterface_init(login, private_key_pem, access_token) ==
    IF access_token # None /\ (login # None \/ private_key_pem # None)
    THEN "ValueError"
    ELSE "none"

\* bearer token that is always asked of the AccessToken
auth_request_by_any_client(access_token, stale) == stale

\* The bearer token of one request: a client built from an access token
\* attaches that token; a client built from a login and key asks its
\* AccessToken, which sends a request to the authentication endpoint when
\* it holds no token or a nearly expired one (`stale`).
auth_request_sent(access_token, stale) == access_token = None /\ stale

NoCall ==
    [pc |-> "idle", method |-> "none", attempt |-> 0, requests |-> 0,
     responses |-> <<>>, log |-> <<>>, result |-> 0]

\* a registrar call begins; `attempt` counts the retries made so far
StartCall(method) ==
    /\ client.raised = "none"
    /\ call.pc \in {"idle", "returned", "raised"}
    /\ call' = [pc |-> "running", method |-> method, attempt |-> 0,
                requests |-> 0, responses |-> <<>>, log |-> <<>>,
                result |-> 0]
    /\ client' = [client EXCEPT !.auth_requests = 0]
    /\ UNCHANGED retry
    /\ UNCHANGED <<tokenVars, classifyVars, keyVars, recordVars,
                   runVars, cmdlineVars>>

\* One pass of the retry loop: send the request, log the status ("API
\* request returned <status>"), then retry after the delay, raise the HTTP
\* error, or return the response.
execute_dns_entry(status) ==
    /\ call.pc = "running"
    /\ call' = [call EXCEPT
                  !.requests = @ + 1,
                  !.responses = Append(@, status),
                  !.log = Append(@, status),
                  !.attempt = IF should_retry(status, call.attempt)
                              THEN @ + 1 ELSE @,
                  !.pc = IF should_retry(status, call.attempt) THEN "running"
                         ELSE IF is_error(status) THEN "raised"
                         ELSE "returned",
                  !.result = IF should_retry(status, call.attempt) THEN 0
                             ELSE status]
    /\ \E stale \in BOOLEAN :
         client' = [client EXCEPT
                      !.auth_requests =
                          IF auth_request_sent(client.access_token, stale)
                          THEN @ + 1 ELSE @]
    /\ UNCHANGED retry
    /\ UNCHANGED <<tokenVars, classifyVars, keyVars, recordVars,
                   runVars, cmdlineVars>>

\* the arguments a TransipInterface is built from
Logins == {None, "John"}

PrivateKeys == {None, "complex key"}

AccessTokens == {None, "token"}

\* TransipInterface.__init__ with retry = R; auth_requests counts the
\* requests sent to the authentication endpoint during the current call
InitRegistrar ==
    /\ retry \in 0..MaxRetry
    /\ call = NoCall
    /\ \E login \in Logins, private_key_pem \in PrivateKeys,
          access_token \in AccessTokens :
         client = [login |-> login, private_key_pem |-> private_key_pem,
                   access_token |-> access_token,
                   raised |-> TransipInterface_init(login, private_key_pem,
                                                    access_token),
                   auth_requests |-> 0]

NoClient == [login |-> None, private_key_pem |-> None, access_token |-> None,
             raised |-> "none", auth_requests |-> 0]

IdleRegistrar ==
    /\ retry = 0
    /\ call = NoCall
    /\ client = NoClient

NextRegistrar ==
    \/ \E method \in Methods : StartCall(method)
    \/ \E status \in Statuses : execute_dns_entry(status)

-----------------------------------------------------------------------------
(* Record reconciliation: filter_domain_records, record_state_in_domain *)

\* Python's None in DnsRecord.expire
NoTTL == -1

\* str.casefold on the strings of the model
casefold(s) ==
    CASE s = "WWW" -> "www"
      [] s = "AAAA" -> "aaaa"
      [] s = "A" -> "a"
      [] s = "2001:DB8::1" -> "2001:db8::1"
      [] OTHER -> s

\* the records a zone listing is made of: {name, type, expire, content}
ZoneRecords ==
    [name : {"www", "mail"}, type : {"AAAA", "A"}, expire : {300, 3600},
     content : {"2001:db8::1", "2001:db8::2"}]

\* the targets: a DnsRecord with any of its fields unset
TargetRecords ==
    [name : {"www", "WWW", None}, rtype : {"AAAA", "aaaa", None},
     expire : {300, NoTTL},
     content : {"2001:db8::1", "2001:DB8::1", None}]

\* all the listings of at most n records
Listings(n) == UNION {[1..k -> ZoneRecords] : k \in 0..n}

\* filter_domain_records that applies the content filter always
filter_content_always(records, rec, ignore_content) ==
    SelectSeq(records, LAMBDA record :
        /\ (rec.name = None \/ casefold(rec.name) = casefold(record.name))
        /\ (rec.content = None
              \/ casefold(rec.content) = casefold(record.content))
        /\ (rec.expire = NoTTL \/ rec.expire = record.expire)
        /\ (rec.rtype = None \/ casefold(rec.rtype) = casefold(record.type)))

\* filter_domain_records that leaves the ttl out of the filter
filter_without_expire(records, rec, ignore_content) ==
    SelectSeq(records, LAMBDA record :
        /\ (rec.name = None \/ casefold(rec.name) = casefold(record.name))
        /\ (rec.content = None
              \/ (casefold(rec.content) = casefold(record.content)
                  \/ ignore_content))
        /\ (rec.rtype = None \/ casefold(rec.rtype) = casefold(record.type)))

\* filter_domain_records: the records that agree with the non-None
\* attributes of the DnsRecord, in their order
filter_domain_records(records, rec, ignore_content) ==
    SelectSeq(records, LAMBDA record :
        /\ (rec.name = None \/ casefold(rec.name) = casefold(record.name))
        /\ (rec.content = None
              \/ (casefold(rec.content) = casefold(record.content)
                  \/ ignore_content))
        /\ (rec.expire = NoTTL \/ rec.expire = record.expire)
        /\ (rec.rtype = None \/ casefold(rec.rtype) = casefold(record.type)))

\* record_state_in_domain that reports FOUND_NO_REQUEST_DATA and leaves
\* the content unset
record_state_no_backfill(rec, records) ==
    LET record_list == filter_domain_records(records, rec, TRUE)
        with_expire == IF rec.expire = NoTTL
                       THEN [rec EXCEPT !.expire = record_list[1].expire]
                       ELSE rec
    IN  IF Len(record_list) > 1
        THEN [raised |-> "DuplicateDnsRecords", state |-> "none",
              records_data |-> [i \in DOMAIN record_list |->
                                   record_list[i].content],
              dns_record |-> rec]
        ELSE IF Len(record_list) = 0
        THEN [raised |-> "none", state |-> "NOTFOUND",
              records_data |-> <<>>, dns_record |-> rec]
        ELSE IF rec.content = None
        THEN [raised |-> "none", state |-> "FOUND_NO_REQUEST_DATA",
              records_data |-> <<>>, dns_record |-> with_expire]
        ELSE IF rec.content = record_list[1].content
        THEN [raised |-> "none", state |-> "FOUND_SAME",
              records_data |-> <<>>, dns_record |-> with_expire]
        ELSE [raised |-> "none", state |-> "FOUND_DIFFERENT",
              records_data |-> <<>>, dns_record |-> with_expire]

\* record_state_in_domain that returns FOUND_NO_REQUEST_DATA before the
\* ttl is taken from the match
record_state_late_expire(rec, records) ==
    LET record_list == filter_domain_records(records, rec, TRUE)
        with_expire == IF rec.expire = NoTTL
                       THEN [rec EXCEPT !.expire = record_list[1].expire]
                       ELSE rec
    IN  IF Len(record_list) > 1
        THEN [raised |-> "DuplicateDnsRecords", state |-> "none",
              records_data |-> [i \in DOMAIN record_list |->
                                   record_list[i].content],
              dns_record |-> rec]
        ELSE IF Len(record_list) = 0
        THEN [raised |-> "none", state |-> "NOTFOUND",
              records_data |-> <<>>, dns_record |-> rec]
        ELSE IF rec.content = None
        THEN [raised |-> "none", state |-> "FOUND_NO_REQUEST_DATA",
              records_data |-> <<>>,
              dns_record |-> [rec EXCEPT !.content = record_list[1].content]]
        ELSE IF rec.content = record_list[1].content
        THEN [raised |-> "none", state |-> "FOUND_SAME",
              records_data |-> <<>>, dns_record |-> with_expire]
        ELSE [raised |-> "none", state |-> "FOUND_DIFFERENT",
              records_data |-> <<>>, dns_record |-> with_expire]

\* record_state_in_domain: what it raises or returns, the contents its
\* error message lists, and the DnsRecord as it leaves it
record_state_in_domain(rec, records) ==
    LET record_list == filter_domain_records(records, rec, TRUE)
        with_expire == IF rec.expire = NoTTL
                       THEN [rec EXCEPT !.expire = record_list[1].expire]
                       ELSE rec
    IN  IF Len(record_list) > 1
        THEN [raised |-> "DuplicateDnsRecords", state |-> "none",
              records_data |-> [i \in DOMAIN record_list |->
                                   record_list[i].content],
              dns_record |-> rec]
        ELSE IF Len(record_list) = 0
        THEN [raised |-> "none", state |-> "NOTFOUND",
              records_data |-> <<>>, dns_record |-> rec]
        ELSE IF rec.content = None
        THEN [raised |-> "none", state |-> "FOUND_NO_REQUEST_DATA",
              records_data |-> <<>>,
              dns_record |-> [with_expire EXCEPT
                                 !.content = record_list[1].content]]
        ELSE IF rec.content = record_list[1].content
        THEN [raised |-> "none", state |-> "FOUND_SAME",
              records_data |-> <<>>, dns_record |-> with_expire]
        ELSE [raised |-> "none", state |-> "FOUND_DIFFERENT",
              records_data |-> <<>>, dns_record |-> with_expire]

NoOutcome ==
    [pc |-> "input", raised |-> "none", state |-> "none",
     records_data |-> <<>>,
     request |-> [name |-> None, rtype |-> None, expire |-> NoTTL,
                  content |-> None]]

\* the call record_state_in_domain(dns_record, domain_records)
Classify ==
    /\ run.pc = "running"
    /\ outcome.pc = "input"
    /\ LET res == record_state_in_domain(dns_record, domain_records)
       IN  /\ dns_record' = res.dns_record
           /\ outcome' = [pc |-> "done", raised |-> res.raised,
                          state |-> res.state,
                          records_data |-> res.records_data,
                          request |-> dns_record]
    /\ UNCHANGED <<domain_records, dispatch, run>>
    /\ UNCHANGED <<tokenVars, registrarVars, keyVars, recordVars,
                   runVars, cmdlineVars>>

\* the outcomes of one registrar call as its caller sees them: the
\* response is returned, or requests.exceptions.HTTPError is raised
CallOutcomes == {"ok", "HTTPError"}

\* one registrar call handed the DnsRecord
RegistrarCall(method, rec) == [method |-> method, dns_record |-> rec]

\* set_dns_record that patches every record that was found
set_dns_record_patches_found(rec, state, http) ==
    IF state # "NOTFOUND"
    THEN [calls |-> <<RegistrarCall("patch", rec)>>,
          raised |-> IF http = "ok" THEN "none" ELSE "HTTPError"]
    ELSE IF rec.expire = NoTTL
    THEN [calls |-> <<>>, raised |-> "DnsRecordNotFoundAndNoTTL"]
    ELSE [calls |-> <<RegistrarCall("post", rec)>>,
          raised |-> IF http = "ok" THEN "none" ELSE "HTTPError"]

\* set_dns_record that posts without looking at the ttl
set_dns_record_no_ttl_check(rec, state, http) ==
    IF state = "FOUND_DIFFERENT"
    THEN [calls |-> <<RegistrarCall("patch", rec)>>,
          raised |-> IF http = "ok" THEN "none" ELSE "HTTPError"]
    ELSE IF state = "NOTFOUND"
    THEN [calls |-> <<RegistrarCall("post", rec)>>,
          raised |-> IF http = "ok" THEN "none" ELSE "HTTPError"]
    ELSE [calls |-> <<>>, raised |-> "none"]

\* set_dns_record: FOUND_SAME logs, FOUND_DIFFERENT patches, NOTFOUND posts
\* unless the ttl is None; `http` is the outcome of the registrar call, if
\* one is made.  The three ifs of the code test states that exclude each
\* other, and no branch assigns the state.
set_dns_record(rec, state, http) ==
    IF state = "FOUND_DIFFERENT"
    THEN [calls |-> <<RegistrarCall("patch", rec)>>,
          raised |-> IF http = "ok" THEN "none" ELSE "HTTPError"]
    ELSE IF state = "NOTFOUND"
    THEN IF rec.expire = NoTTL
         THEN [calls |-> <<>>, raised |-> "DnsRecordNotFoundAndNoTTL"]
         ELSE [calls |-> <<RegistrarCall("post", rec)>>,
               raised |-> IF http = "ok" THEN "none" ELSE "HTTPError"]
    ELSE [calls |-> <<>>, raised |-> "none"]

\* delete_dns_record without the NOTFOUND gate
delete_dns_record_always(rec, state, http) ==
    [calls |-> <<RegistrarCall("delete", rec)>>,
     raised |-> IF http = "ok" THEN "none" ELSE "HTTPError"]

\* delete_dns_record: NOTFOUND logs and returns, every other state deletes
delete_dns_record(rec, state, http) ==
    IF state = "NOTFOUND"
    THEN [calls |-> <<>>, raised |-> "none"]
    ELSE [calls |-> <<RegistrarCall("delete", rec)>>,
          raised |-> IF http = "ok" THEN "none" ELSE "HTTPError"]

NoDispatch == [action |-> "none", calls |-> <<>>, raised |-> "none"]

\* execute_requested_action reaches set_dns_record: the record was
\* classified (a name is required for this action) and nothing was raised
SetDnsRecord ==
    /\ run.pc = "running"
    /\ outcome.pc = "done"
    /\ outcome.raised = "none"
    /\ outcome.request.name # None
    /\ dispatch.action = "none"
    /\ \E http \in CallOutcomes :
         LET res == set_dns_record(dns_record, outcome.state, http)
         IN  dispatch' = [action |-> "set", calls |-> res.calls,
                          raised |-> res.raised]
    /\ UNCHANGED <<dns_record, domain_records, outcome, run>>
    /\ UNCHANGED <<tokenVars, registrarVars, keyVars, recordVars,
                   runVars, cmdlineVars>>

\* execute_requested_action reaches delete_dns_record
DeleteDnsRecord ==
    /\ run.pc = "running"
    /\ outcome.pc = "done"
    /\ outcome.raised = "none"
    /\ outcome.request.name # None
    /\ dispatch.action = "none"
    /\ \E http \in CallOutcomes :
         LET res == delete_dns_record(dns_record, outcome.state, http)
         IN  dispatch' = [action |-> "delete", calls |-> res.calls,
                          raised |-> res.raised]
    /\ UNCHANGED <<dns_record, domain_records, outcome, run>>
    /\ UNCHANGED <<tokenVars, registrarVars, keyVars, recordVars,
                   runVars, cmdlineVars>>

\* what the body of an error response holds: a JSON object with an
\* "error" member, a JSON object without one, or something that is not JSON
Bodies == {"json error", "json", "not json"}

\* the responses an HTTPError carries
ErrorResponses == [status_code : {s \in Statuses : is_error(s)}, body : Bodies]

NoResponse == [status_code |-> 0, body |-> "json error"]

\* the status the interpreter ends with when an exception leaves main()
UncaughtStatus == 1

\* main(): 0 after a run without error; on HTTPError it logs
\* e.response.json()["error"] and then calls sys.exit(status_code), so a
\* body that is not JSON or has no "error" member raises inside the
\* handler and that exception leaves main(); any other Exception is logged
\* and -1 is returned.
main(raised, response) ==
    IF raised = "none"
    THEN [kind |-> "return", code |-> 0, escaped |-> "none"]
    ELSE IF raised = "HTTPError"
    THEN IF response.body = "json error"
         THEN [kind |-> "SystemExit", code |-> response.status_code,
               escaped |-> "none"]
         ELSE IF response.body = "json"
         THEN [kind |-> "raise", code |-> UncaughtStatus,
               escaped |-> "KeyError"]
         ELSE [kind |-> "raise", code |-> UncaughtStatus,
               escaped |-> "JSONDecodeError"]
    ELSE [kind |-> "return", code |-> 0 - 1, escaped |-> "none"]

NoRun == [pc |-> "running", raised |-> "none", response |-> NoResponse,
          kind |-> "return", code |-> 0, escaped |-> "none"]

\* what transip_dns_main() raised in a run that has come to its end
RunRaised ==
    IF outcome.pc = "done" /\ outcome.raised # "none" THEN outcome.raised
    ELSE dispatch.raised

\* main() ends the run: transip_dns_main() raised while classifying, or
\* the requested action returned or raised
EndRun ==
    /\ run.pc = "running"
    /\ \/ outcome.pc = "done" /\ outcome.raised # "none"
       \/ dispatch.action # "none"
    /\ \E response \in ErrorResponses :
         LET r == IF RunRaised = "HTTPError" THEN response ELSE NoResponse
             end == main(RunRaised, r)
         IN  run' = [pc |-> "ended", raised |-> RunRaised, response |-> r,
                     kind |-> end.kind, code |-> end.code,
                     escaped |-> end.escaped]
    /\ UNCHANGED <<dns_record, domain_records, outcome, dispatch>>
    /\ UNCHANGED <<tokenVars, registrarVars, keyVars, recordVars,
                   runVars, cmdlineVars>>

\* main() ends a run in which get_dns_entry, listing the zone, raised
EndRunListing ==
    /\ run.pc = "running"
    /\ outcome.pc = "input"
    /\ \E response \in ErrorResponses :
         LET end == main("HTTPError", response)
         IN  run' = [pc |-> "ended", raised |-> "HTTPError",
                     response |-> response,
                     kind |-> end.kind, code |-> end.code,
                     escaped |-> end.escaped]
    /\ UNCHANGED <<dns_record, domain_records, outcome, dispatch>>
    /\ UNCHANGED <<tokenVars, registrarVars, keyVars, recordVars,
                   runVars, cmdlineVars>>

InitClassify ==
    /\ dns_record \in TargetRecords
    /\ domain_records \in Listings(MaxRecords)
    /\ outcome = NoOutcome
    /\ dispatch = NoDispatch
    /\ run = NoRun

IdleClassify ==
    /\ dns_record = NoOutcome.request
    /\ domain_records = <<>>
    /\ outcome = NoOutcome
    /\ dispatch = NoDispatch
    /\ run = NoRun

NextClassify ==
    Classify \/ SetDnsRecord \/ DeleteDnsRecord \/ EndRun \/ EndRunListing

-----------------------------------------------------------------------------
(* AccessToken construction: the private key text and its repair.          *)
(* A text is a sequence of tokens.  "-" is one dash, LF, CR and SP are the  *)
(* characters \n, \r and blank, BEGIN and END are those words, K stands    *)
(* for the words that name the key type, b is a base64 character and x any  *)
(* other character.                                                         *)

Alphabet == {"-", "LF", "CR", "SP", "BEGIN", "END", "K", "b", "x"}

\* the character classes of the repair pattern
Dot == Alphabet \ {"LF"}
LabelChar == Alphabet \ {"-", "LF", "CR"}
FenceGap == {"-", "LF", "CR"}
NotDash == Alphabet \ {"-"}
DashOrSpace == {"-", "SP"}

\* the number of dashes the rebuilt BEGIN and END lines are fenced with
FenceLen == 5

Dashes(k) == [i \in 1..k |-> "-"]

Fence == Dashes(FenceLen)

\* Python's None for a text
NoText == <<None>>

\* truthiness of an optional text
truthy_text(v) == v # NoText /\ v # <<>>

\* truthiness of an optional path
truthy_path(v) == v # None /\ v # ""

Largest(S) == LET T == S IN CHOOSE q \in T : \A r \in T : r <= q

Smallest(S) == LET T == S IN CHOOSE q \in T : \A r \in T : q <= r

\* the position after the longest run of Class characters of s from p on
MaxRun(s, p, Class) ==
    CHOOSE q \in p..(Len(s) + 1) :
        /\ \A i \in p..(q - 1) : s[i] \in Class
        /\ (q = Len(s) + 1 \/ s[q] \notin Class)

\* str.strip() on a text
RECURSIVE strip(_)
strip(s) ==
    IF s = <<>> THEN s
    ELSE IF Head(s) = "SP" THEN strip(Tail(s))
    ELSE IF s[Len(s)] = "SP" THEN strip(SubSeq(s, 1, Len(s) - 1))
    ELSE s

\* the end a greedy part of the pattern takes among the ends after which
\* the rest of the pattern matches: the largest, 0 when there is none
greedy(ends) == Largest(ends \cup {0})

\* the end a lazy part takes: the smallest, 0 when there is none
lazy(ends) == LET found == ends IN IF found = {} THEN 0 ELSE Smallest(found)

\* the groups of a match that begins its BEGIN group at b0
pem_groups(s, b0, beginAt, gapAt, keyAt, bodyAt, skipAt, fenceAt, endAt) ==
    LET b1 == beginAt[b0]
        k0 == gapAt[b1]
        k1 == bodyAt[keyAt[k0]]
        e0 == fenceAt[skipAt[k1]]
    IN  [matched |-> TRUE,
         begin |-> SubSeq(s, b0, b1 - 1),
         key |-> SubSeq(s, k0, k1 - 1),
         end |-> SubSeq(s, e0, endAt[e0] - 1)]

\* re.match of the repair pattern
\*   .*?(?P<begin>BEGIN[^-\n\r]+)[-\n\r]*(?P<key>.+?[^-]*).*?[- ]+(?P<end>END[^-\n\r]+)
\* at the start of s.  Each table gives, for a position, where one part of
\* the pattern ends when the rest of the pattern can still match (0 when
\* it cannot): a greedy part takes the largest such end, a lazy part the
\* smallest, which is the match a backtracking matcher finds first.
pem_match(private_key_pem) ==
    LET s == private_key_pem
        n == Len(s)
        Pos == 1..(n + 1)
        \* (?P<end>END[^-\n\r]+), greedy, nothing follows
        endAt == [p \in Pos |->
            IF p + 1 <= n /\ s[p] = "END" /\ s[p + 1] \in LabelChar
            THEN MaxRun(s, p + 1, LabelChar) ELSE 0]
        \* [- ]+, greedy
        fenceAt == [p \in Pos |->
            greedy({q \in (p + 1)..MaxRun(s, p, DashOrSpace) : endAt[q] # 0})]
        \* .*?, lazy
        skipAt == [p \in Pos |->
            lazy({q \in p..MaxRun(s, p, Dot) : fenceAt[q] # 0})]
        \* [^-]*, greedy
        bodyAt == [p \in Pos |->
            greedy({q \in p..MaxRun(s, p, NotDash) : skipAt[q] # 0})]
        \* .+?, lazy
        keyAt == [p \in Pos |->
            lazy({q \in (p + 1)..MaxRun(s, p, Dot) : bodyAt[q] # 0})]
        \* [-\n\r]*, greedy
        gapAt == [p \in Pos |->
            greedy({q \in p..MaxRun(s, p, FenceGap) : keyAt[q] # 0})]
        \* (?P<begin>BEGIN[^-\n\r]+), greedy
        beginAt == [p \in Pos |->
            IF p <= n /\ s[p] = "BEGIN"
            THEN greedy({q \in (p + 2)..MaxRun(s, p + 1, LabelChar) :
                            gapAt[q] # 0})
            ELSE 0]
        \* the leading .*?, lazy
        b0 == lazy({q \in 1..MaxRun(s, 1, Dot) : beginAt[q] # 0})
    IN  IF b0 = 0 THEN [matched |-> FALSE]
        ELSE pem_groups(s, b0, beginAt, gapAt, keyAt, bodyAt, skipAt,
                        fenceAt, endAt)

\* the text rebuild_private_key_pem makes of a match, or its exception
reassemble(match) ==
    LET pem_components == match
    IN  IF ~pem_components.matched
        THEN [raised |-> "AccessTokenPrivateKeyInvalidPemFormat",
              pem |-> NoText]
        ELSE [raised |-> "none",
              pem |-> Fence \o strip(pem_components.begin) \o Fence
                      \o <<"LF">> \o pem_components.key
                      \o Fence \o strip(pem_components.end) \o Fence
                      \o <<"LF">>]

\* rebuild_private_key_pem: tokenize the text as a PEM file and re-assemble
rebuild_private_key_pem(private_key_pem) ==
    reassemble(pem_match(private_key_pem))

\* text holds the words at some place
Contains(text, words) ==
    \E i \in 1..(Len(text) - Len(words) + 1) :
        SubSeq(text, i, i + Len(words) - 1) = words

\* load_pem_private_key of the cryptography library.  The five dashes must
\* be exactly present around BEGIN and END (rfc7468), so a text without
\* them is no key; for any other text the library's verdict is the input
\* `verdict`.
load_pem_private_key(text, verdict) ==
    /\ Contains(text, Fence \o <<"BEGIN", "SP", "K">> \o Fence)
    /\ Contains(text, Fence \o <<"END", "SP", "K">> \o Fence)
    /\ verdict

\* serialize_private_key from the second attempt on: the text is the one
\* rebuilt after the first attempt, parsed2 says whether it parses, and
\* rebuilt2 is what the rebuild after the second attempt makes of it
second_attempt(parsed1, rebuilt1, parsed2, rebuilt2) ==
    \* rebuilt2 is looked at only when the second attempt parsed
    IF ~parsed2
    THEN [raised |-> "AccessTokenPrivateKeyUnrecognized",
          parses |-> 2, repairs |-> 1,
          parsed |-> <<parsed1, parsed2>>, private_key |-> NoText]
    ELSE IF rebuilt2.raised # "none"
    THEN [raised |-> rebuilt2.raised, parses |-> 2, repairs |-> 2,
          parsed |-> <<parsed1, parsed2>>, private_key |-> NoText]
    ELSE [raised |-> "none", parses |-> 2, repairs |-> 2,
          parsed |-> <<parsed1, parsed2>>, private_key |-> rebuilt1.pem]

\* serialize_private_key after the first attempt: a parse failure at
\* attempt 1 is passed over, then the text is rebuilt (rebuilt1)
first_attempt(private_key_pem, parsed1, rebuilt, verdict1, verdict2) ==
    LET rebuilt1 == rebuilt
    IN  IF rebuilt1.raised # "none"
        THEN [raised |-> rebuilt1.raised, parses |-> 1, repairs |-> 1,
              parsed |-> <<parsed1>>, private_key |-> NoText]
        ELSE second_attempt(parsed1, rebuilt1,
                            load_pem_private_key(rebuilt1.pem,
                                IF rebuilt1.pem = private_key_pem
                                THEN verdict1 ELSE verdict2),
                            rebuild_private_key_pem(rebuilt1.pem))

\* serialize_private_key: two attempts; after each attempt that did not
\* raise, the text is rebuilt.  verdict1 is the library's verdict on the
\* given text, verdict2 its verdict on the rebuilt text where that differs.
\* None for a text fails at private_key_pem.encode().
serialize_private_key(private_key_pem, verdict1, verdict2) ==
    IF private_key_pem = NoText
    THEN [raised |-> "AttributeError", parses |-> 0, repairs |-> 0,
          parsed |-> <<>>, private_key |-> NoText]
    ELSE first_attempt(private_key_pem,
                       load_pem_private_key(private_key_pem, verdict1),
                       rebuild_private_key_pem(private_key_pem),
                       verdict1, verdict2)

\* the key texts: a BEGIN line, a body and an END line, each part written
\* in several ways
PemTexts ==
    { pre \o <<"BEGIN", "SP", "K">> \o post \o sep \o <<"b">>
          \o eol \o pre2 \o <<"END", "SP", "K">> \o post2 \o last :
        pre \in {<<>>, Fence},
        post \in {<<>>, Fence},
        sep \in {<<>>, <<"LF">>, <<"CR", "LF">>},
        eol \in {<<"LF">>, <<"CR", "LF">>},
        pre2 \in {<<"-">>, Fence, <<"SP">>},
        post2 \in {<<>>, Fence},
        last \in {<<>>, <<"LF">>} }

\* a well-formed key, as the tests write it
GoodKey ==
    Fence \o <<"BEGIN", "SP", "K">> \o Fence \o <<"LF", "b", "LF">>
          \o Fence \o <<"END", "SP", "K">> \o Fence \o <<"LF">>

\* the texts a key is built from: the PEM variants, the good key after a
\* line of other text, and "Not a key"
KeyTexts == PemTexts \cup {<<"x", "LF">> \o GoodKey, <<"x", "SP", "x">>}

\* the path of a file that holds the key text
KeyFile == "key.pem"

NoResult == [raised |-> "none", parses |-> 0, repairs |-> 0,
             parsed |-> <<>>, private_key |-> NoText]

\* AccessToken.__init__(private_key, private_key_file): exactly one of the
\* two is to be given; a file is read; the text is serialized.  The
\* constructor sends nothing: requests counts the calls of post().
AccessToken_init ==
    /\ key.pc = "input"
    /\ \E verdict1 \in BOOLEAN, verdict2 \in BOOLEAN :
       LET serialized == [pem \in {NoText, <<>>, key.text} |->
                            serialize_private_key(pem, verdict1, verdict2)]
       IN
       \E private_key \in {NoText, <<>>, key.text},
          private_key_file \in {None, "", KeyFile} :
         LET both == truthy_text(private_key) /\ truthy_path(private_key_file)
             neither == private_key = NoText /\ private_key_file = None
             pem == IF truthy_path(private_key_file) THEN key.text
                    ELSE private_key
             res == IF both \/ neither
                    THEN [NoResult EXCEPT !.raised = "ValueError"]
                    ELSE serialized[pem]
         IN  key' = [key EXCEPT !.pc = "constructed",
                                !.private_key = private_key,
                                !.private_key_file = private_key_file,
                                !.result = res,
                                !.requests = 0]
    /\ UNCHANGED <<tokenVars, registrarVars, classifyVars, recordVars,
                   runVars, cmdlineVars>>

\* AccessToken.rebuild_private_key_pem(text), the static method called on
\* its own
Rebuild ==
    /\ key.pc = "input"
    /\ key' = [key EXCEPT !.pc = "rebuilt",
                          !.rebuilt = rebuild_private_key_pem(key.text)]
    /\ UNCHANGED <<tokenVars, registrarVars, classifyVars, recordVars,
                   runVars, cmdlineVars>>

\* the static method called on its own output
RebuildAgain ==
    /\ key.pc = "rebuilt"
    /\ key.rebuilt.raised = "none"
    /\ key' = [key EXCEPT !.pc = "rebuilt twice",
                          !.again = rebuild_private_key_pem(key.rebuilt.pem)]
    /\ UNCHANGED <<tokenVars, registrarVars, classifyVars, recordVars,
                   runVars, cmdlineVars>>

NoKey == [pc |-> "input", text |-> <<>>,
          private_key |-> NoText, private_key_file |-> None,
          result |-> NoResult, requests |-> 0,
          rebuilt |-> [raised |-> "none", pem |-> NoText],
          again |-> [raised |-> "none", pem |-> NoText]]

InitKey == \E text \in KeyTexts : key = [NoKey EXCEPT !.text = text]

IdleKey == key = NoKey

NextKey == AccessToken_init \/ Rebuild \/ RebuildAgain

-----------------------------------------------------------------------------
(* DnsRecord construction *)

\* the fixed record types, DNS_RECORD_TYPES
DNS_RECORD_TYPES ==
    {"A", "AAAA", "CNAME", "MX", "NS", "TXT", "SRV", "SSHFP", "TLSA", "CAA"}

\* str.upper() on the type names used here
upper(s) ==
    CASE s = "a" -> "A"
      [] s = "aaaa" -> "AAAA"
      [] s = "txt" -> "TXT"
      [] s = "x" -> "X"
      [] OTHER -> s

\* the types a DnsRecord is asked for
RecordTypeArgs == {None, "A", "a", "AAAA", "aaaa", "TXT", "txt", "x", "X"}

\* DnsRecord.__init__ that looks the type up as it is written
DnsRecord_init_exact(name, rtype, expire, content, zone) ==
    IF rtype # None /\ rtype \notin DNS_RECORD_TYPES
    THEN [raised |-> "ValueError", name |-> None, rtype |-> None,
          expire |-> NoTTL, content |-> None, zone |-> None]
    ELSE [raised |-> "none", name |-> name, rtype |-> rtype,
          expire |-> expire, content |-> content, zone |-> zone]

\* DnsRecord.__init__: a type that is given must name one of the fixed
\* record types, in either case; the fields are stored as given
DnsRecord_init(name, rtype, expire, content, zone) ==
    IF rtype # None /\ upper(rtype) \notin DNS_RECORD_TYPES
    THEN [raised |-> "ValueError", name |-> None, rtype |-> None,
          expire |-> NoTTL, content |-> None, zone |-> None]
    ELSE [raised |-> "none", name |-> name, rtype |-> rtype,
          expire |-> expire, content |-> content, zone |-> zone]

NoRecord ==
    [pc |-> "args",
     args |-> [name |-> None, rtype |-> None, expire |-> NoTTL,
               content |-> None, zone |-> None],
     made |-> [raised |-> "none", name |-> None, rtype |-> None,
               expire |-> NoTTL, content |-> None, zone |-> None]]

\* DnsRecord(name, rtype, expire, content, zone)
NewDnsRecord ==
    /\ new_record.pc = "args"
    /\ new_record' =
         [new_record EXCEPT
            !.pc = "made",
            !.made = DnsRecord_init(new_record.args.name,
                                    new_record.args.rtype,
                                    new_record.args.expire,
                                    new_record.args.content,
                                    new_record.args.zone)]
    /\ UNCHANGED <<tokenVars, registrarVars, classifyVars, keyVars,
                   runVars, cmdlineVars>>

InitRecord ==
    \E name \in {None, "home", "@"}, rtype \in RecordTypeArgs,
       expire \in {NoTTL, 300}, content \in {None, "ip"} :
        new_record = [NoRecord EXCEPT
                        !.args = [name |-> name, rtype |-> rtype,
                                  expire |-> expire, content |-> content,
                                  zone |-> "x.net"]]

IdleRecord == new_record = NoRecord

NextRecord == NewDnsRecord

-----------------------------------------------------------------------------
(* One invocation: transip_dns_main against the records of a zone          *)

\* args.domainname
ZoneName == "example.com"

\* the value --query_ipv6 stands for when it is given without a url
EchoUrl == "https://ipv6.icanhazip.com"

\* what the IP-echo service answers
EchoedIps == {"2001:db8::1"}

\* "Not a key", a text no repair makes a key of
NotAKey == <<"x", "SP", "x">>

\* the records the registrar holds: the AAAA records of ZoneRecords named
\* www, with either ttl and either content
HeldRecords == {r \in ZoneRecords : r.name = "www" /\ r.type = "AAAA"}

\* the zones: at most n records, no record held twice
Zones(n) ==
    {z \in UNION {[1..k -> HeldRecords] : k \in 0..n} :
        \A i \in DOMAIN z, j \in DOMAIN z : z[i] = z[j] => i = j}

\* the credentials of a run: a token, a login with a key text or a key
\* file, a login with a text that is no key, a login alone, and a login
\* next to a token
Credentials ==
    { [user |-> None, private_key |-> NoText, private_key_file |-> None,
       token |-> "token"],
      [user |-> "John", private_key |-> GoodKey, private_key_file |-> None,
       token |-> None],
      [user |-> "John", private_key |-> NoText, private_key_file |-> KeyFile,
       token |-> None],
      [user |-> "John", private_key |-> NotAKey, private_key_file |-> None,
       token |-> None],
      [user |-> "John", private_key |-> NoText, private_key_file |-> None,
       token |-> None],
      [user |-> "John", private_key |-> NoText, private_key_file |-> None,
       token |-> "token"] }

\* every combination of the options' values
AllArgs ==
    [list : BOOLEAN, delete : BOOLEAN, domains : BOOLEAN,
     record_name : {None, "www", "WWW", "mail"},
     record_type : {None, "A", "AAAA"},
     record_ttl : {NoTTL, 300},
     record_data : {None, "2001:db8::1", "2001:DB8::1", "2001:db8::2"},
     query_url : {None, EchoUrl},
     credentials : Credentials]

\* what process_commandline lets through: the type defaults to A unless
\* --list is given, the name is required unless --list or --domains is
\* given, --record_data and the query options exclude each other and one
\* of them is required when --delete comes with --list or --domains
parsed(a) ==
    /\ a.record_type = None => a.list
    /\ a.record_name = None => (a.list \/ a.domains)
    /\ a.record_data = None \/ a.query_url = None
    /\ ((a.list \/ a.domains) /\ a.delete)
       => (a.record_data # None \/ a.query_url # None)

\* the runs looked at: a name or a content in capitals only where the
\* zone is listed, and the credentials varied for one target
considered(a) ==
    /\ (a.record_name = "WWW" \/ a.record_data = "2001:DB8::1") => a.list
    /\ \/ (a.credentials.token = "token" /\ a.credentials.user = None)
       \/ /\ ~a.list /\ ~a.delete /\ ~a.domains
          /\ a.record_name = "www"
          /\ a.record_type = "A"
          /\ a.record_ttl = 300
          /\ a.record_data # "2001:db8::2"

\* the argument namespaces of the runs
Args == {a \in AllArgs : parsed(a) /\ considered(a)}

\* what AccessToken.serialize_private_key makes of the two key texts
KeyOutcomes ==
    [text \in {GoodKey, NotAKey} |->
        serialize_private_key(text, TRUE, TRUE).raised]

\* TransipInterface(login, private_key_pem, private_key_pem_file,
\* access_token): what the construction raises.  With a token no
\* AccessToken is made; without one the AccessToken checks that exactly one
\* key source is given, reads the file and parses the key.
build_TransipInterface(c) ==
    IF TransipInterface_init(c.user,
                             IF c.private_key = NoText THEN None
                             ELSE "complex key",
                             c.token) # "none"
    THEN "ValueError"
    ELSE IF c.token # None
    THEN "none"
    ELSE IF \/ (truthy_text(c.private_key)
                    /\ truthy_path(c.private_key_file))
            \/ (c.private_key = NoText /\ c.private_key_file = None)
    THEN "ValueError"
    ELSE KeyOutcomes[IF truthy_path(c.private_key_file) THEN GoodKey
                     ELSE c.private_key]

NoParameters ==
    [raised |-> "none", net |-> <<>>, dns_record |-> NoOutcome.request,
     domain_records |-> <<>>, listed |-> FALSE, classified |-> FALSE,
     state |-> "none", record_list |-> <<>>]

\* process_parameters: DnsRecord(...), which asks the IP-echo service for
\* the content when a query url is given; TransipInterface(...); unless
\* --domains is given the zone is listed (the first registrar call of a
\* client built from a login asks for a token first), and when the record
\* has a name it is classified against the listing.  `held` is what the
\* registrar holds, `ip` what the echo service answers, `get` the outcome
\* of the listing call.
process_parameters(a, held, ip, get) ==
    LET made == DnsRecord_init(a.record_name, a.record_type, a.record_ttl,
                               a.record_data, ZoneName)
        queried == truthy_path(a.query_url)
        rec == [name |-> made.name, rtype |-> made.rtype,
                expire |-> made.expire,
                content |-> IF queried THEN ip ELSE made.content]
        asked == IF queried THEN <<"query">> ELSE <<>>
        bearer == IF auth_request_sent(a.credentials.token, TRUE)
                  THEN <<"auth">> ELSE <<>>
        res == record_state_in_domain(rec, held)
    IN  IF made.raised # "none"
        THEN [NoParameters EXCEPT !.raised = made.raised]
        ELSE IF build_TransipInterface(a.credentials) # "none"
        THEN [NoParameters EXCEPT
                !.raised = build_TransipInterface(a.credentials),
                !.net = asked, !.dns_record = rec]
        ELSE IF a.domains
        THEN [NoParameters EXCEPT !.net = asked, !.dns_record = rec]
        ELSE IF get = "HTTPError"
        THEN [NoParameters EXCEPT
                !.raised = "HTTPError",
                !.net = asked \o bearer \o <<"get">>,
                !.dns_record = rec]
        ELSE IF rec.name = None
        THEN [NoParameters EXCEPT
                !.net = asked \o bearer \o <<"get">>,
                !.dns_record = rec, !.domain_records = held,
                !.listed = TRUE]
        ELSE [raised |-> res.raised,
              net |-> asked \o bearer \o <<"get">>,
              dns_record |-> res.dns_record,
              domain_records |-> held, listed |-> TRUE,
              classified |-> res.raised = "none",
              state |-> res.state,
              record_list |-> filter_domain_records(held, rec, TRUE)]

\* display_domain: the listing as it is, when the record has no attribute
\* to filter on, and filtered on the record's attributes otherwise
display_domain(records, rec) ==
    IF /\ rec.name = None /\ rec.rtype = None
       /\ rec.content = None /\ rec.expire = NoTTL
    THEN records
    ELSE filter_domain_records(records, rec, FALSE)

\* the registrar calls, in the order they were made
methods(calls) == [i \in DOMAIN calls |-> calls[i].method]

\* execute_requested_action that looks at --delete before --list
execute_delete_first(a, p, http) ==
    IF a.delete
    THEN LET r == delete_dns_record(p.dns_record, p.state, http)
         IN  [action |-> "delete", calls |-> r.calls, raised |-> r.raised,
              displayed |-> <<>>, net |-> methods(r.calls)]
    ELSE IF a.list
    THEN [action |-> "list", calls |-> <<>>, raised |-> "none",
          displayed |-> display_domain(p.domain_records, p.dns_record),
          net |-> <<>>]
    ELSE IF a.domains
    THEN [action |-> "domains", calls |-> <<>>, raised |-> "none",
          displayed |-> <<>>, net |-> <<"domains">>]
    ELSE LET r == set_dns_record(p.dns_record, p.state, http)
         IN  [action |-> "set", calls |-> r.calls, raised |-> r.raised,
              displayed |-> <<>>, net |-> methods(r.calls)]

\* execute_requested_action: --list displays the listing, else --delete
\* deletes the record, else --domains displays the account's domains, else
\* the record is set.  `http` is the outcome of the registrar call, if one
\* is made.
execute_requested_action(a, p, http) ==
    IF a.list
    THEN [action |-> "list", calls |-> <<>>, raised |-> "none",
          displayed |-> display_domain(p.domain_records, p.dns_record),
          net |-> <<>>]
    ELSE IF a.delete
    THEN LET r == delete_dns_record(p.dns_record, p.state, http)
         IN  [action |-> "delete", calls |-> r.calls, raised |-> r.raised,
              displayed |-> <<>>, net |-> methods(r.calls)]
    ELSE IF a.domains
    THEN [action |-> "domains", calls |-> <<>>, raised |-> "none",
          displayed |-> <<>>, net |-> <<"domains">>]
    ELSE LET r == set_dns_record(p.dns_record, p.state, http)
         IN  [action |-> "set", calls |-> r.calls, raised |-> r.raised,
              displayed |-> <<>>, net |-> methods(r.calls)]

\* transip_dns_main: process_parameters, then execute_requested_action
\* unless the former raised
transip_dns_main(a, held, ip, get, http) ==
    LET p == process_parameters(a, held, ip, get)
        e == IF p.raised = "none"
             THEN execute_requested_action(a, p, http)
             ELSE [action |-> "none", calls |-> <<>>, raised |-> p.raised,
                   displayed |-> <<>>, net |-> <<>>]
    IN  [raised |-> e.raised, net |-> p.net \o e.net,
         dns_record |-> p.dns_record, domain_records |-> p.domain_records,
         listed |-> p.listed, classified |-> p.classified,
         state |-> p.state, record_list |-> p.record_list,
         action |-> e.action, calls |-> e.calls, displayed |-> e.displayed]

\* the dnsEntry a registrar call sends
dnsEntry(rec) ==
    [name |-> rec.name, type |-> rec.rtype, expire |-> rec.expire,
     content |-> rec.content]

\* two entries the registrar takes for the same record when it patches
same_entry(e, r) ==
    e.name = r.name /\ e.type = r.type /\ e.expire = r.expire

\* the zone records endpoint answers 20x: the entry is fully populated,
\* a POST does not create an entry the zone holds, a PATCH and a DELETE
\* find their entry
accepts(method, e, held) ==
    /\ e.name # None /\ e.type # None
    /\ e.expire # NoTTL /\ e.content # None
    /\ CASE method = "post" -> \A i \in DOMAIN held : held[i] # e
         [] method = "patch" -> \E i \in DOMAIN held : same_entry(e, held[i])
         [] method = "delete" -> \E i \in DOMAIN held : held[i] = e
         [] OTHER -> FALSE

\* what the zone holds after the endpoint answered 20x
applied(method, e, held) ==
    CASE method = "post" -> Append(held, e)
      [] method = "patch" ->
           [i \in DOMAIN held |->
               IF same_entry(e, held[i])
               THEN [held[i] EXCEPT !.content = e.content]
               ELSE held[i]]
      [] method = "delete" -> SelectSeq(held, LAMBDA r : r # e)
      [] OTHER -> held

NoInvocation ==
    [raised |-> "none", net |-> <<>>, dns_record |-> NoOutcome.request,
     domain_records |-> <<>>, listed |-> FALSE, classified |-> FALSE,
     state |-> "none", record_list |-> <<>>,
     action |-> "none", calls |-> <<>>, displayed |-> <<>>]

\* the zone after the run r: a registrar call that returned was applied
zone_after(r, held) ==
    IF r.calls # <<>> /\ r.raised = "none"
    THEN applied(r.calls[1].method, dnsEntry(r.calls[1].dns_record), held)
    ELSE held

\* the registrar call of the run r, if it returned, was one the endpoint
\* answers with 20x
answered(r, held) ==
    (r.calls # <<>> /\ r.raised = "none")
    => accepts(r.calls[1].method, dnsEntry(r.calls[1].dns_record), held)

\* one run of the program: the first, or the program run once more with
\* the same arguments after a run that ended without error
Invocation ==
    /\ inv.pc \in {"ready", "done"}
    /\ inv.pc = "done" => inv.run.raised = "none"
    /\ \E ip \in EchoedIps, get \in CallOutcomes, http \in CallOutcomes :
         LET r == transip_dns_main(args, held_zone, ip, get, http)
         IN  /\ answered(r, held_zone)
             /\ held_zone' = zone_after(r, held_zone)
             /\ inv' = [pc |-> IF inv.pc = "ready" THEN "done" ELSE "again",
                        run |-> r,
                        first |-> IF inv.pc = "ready" THEN NoInvocation
                                  ELSE inv.run,
                        held |-> held_zone]
    /\ UNCHANGED args
    /\ UNCHANGED <<tokenVars, registrarVars, classifyVars, keyVars,
                   recordVars, cmdlineVars>>

NoArgs ==
    [list |-> FALSE, delete |-> FALSE, domains |-> FALSE,
     record_name |-> None, record_type |-> None, record_ttl |-> NoTTL,
     record_data |-> None, query_url |-> None,
     credentials |-> [user |-> None, private_key |-> NoText,
                      private_key_file |-> None, token |-> None]]

NoRuns ==
    [pc |-> "ready", run |-> NoInvocation, first |-> NoInvocation,
     held |-> <<>>]

InitRun ==
    /\ held_zone \in Zones(MaxRecords)
    /\ args \in Args
    /\ inv = NoRuns

IdleRun ==
    /\ held_zone = <<>>
    /\ args = NoArgs
    /\ inv = NoRuns

NextRun == Invocation

-----------------------------------------------------------------------------
(* process_commandline: os.environ folded into sys.argv, then argparse.     *)
(* Arguments and values are the strings themselves; four options stand for  *)
(* the kinds the parsers hold: a value (nargs None), a value with a         *)
(* default, a switch (store_true, nargs 0) and an optional value (nargs ?). *)

\* deduce_environment_variable: TID_ and the last long option, in capitals
deduce_environment_variable(option_strings) ==
    LET long == option_strings[Len(option_strings)]
    IN  CASE long = "--record_name" -> "TID_RECORD_NAME"
          [] long = "--log" -> "TID_LOG"
          [] long = "--delete" -> "TID_DELETE"
          [] long = "--query_ipv4" -> "TID_QUERY_IPV4"

\* the arguments of pre_parser, in the order they are added: --log, --delete
pre_parser ==
    << [dest |-> "log", option_strings |-> <<"-l", "--log">>,
        nargs |-> "None", const |-> None, default |-> "INFO"],
       [dest |-> "delete", option_strings |-> <<"--delete">>,
        nargs |-> "0", const |-> "True", default |-> "False"] >>

\* the arguments of parser: those of its parent pre_parser, then
\* --record_name and --query_ip/--query_ipv4
parser ==
    pre_parser \o
    << [dest |-> "record_name",
        option_strings |-> <<"-n", "--record_name">>,
        nargs |-> "None", const |-> None, default |-> None],
       [dest |-> "query_url",
        option_strings |-> <<"-q", "--query_ip", "--query_ipv4">>,
        nargs |-> "?", const |-> "https://ipv4.icanhazip.com",
        default |-> None] >>

\* the elements of a sequence
Range(s) == {s[i] : i \in DOMAIN s}

\* use_env_variables: the variable is set and none of the option strings
\* is an element of sys.argv
use_env_variables(env_var, option_strings, environ, argv) ==
    /\ environ[env_var] # None
    /\ Range(option_strings) \ Range(argv) = Range(option_strings)

\* str.lower() on the values of the environment
lower_value(v) ==
    CASE v = "TRUE" -> "true"
      [] v = "ERROR" -> "error"
      [] OTHER -> v

\* what one action adds to sys.argv
injected(action, environ, argv) ==
    LET env_var == deduce_environment_variable(action.option_strings)
        last == action.option_strings[Len(action.option_strings)]
    IN  IF ~use_env_variables(env_var, action.option_strings, environ, argv)
        THEN <<>>
        ELSE IF action.nargs = "None"
        THEN <<last, environ[env_var]>>
        ELSE IF action.nargs = "?"
        THEN IF lower_value(environ[env_var]) \in {"false", "0"}
             THEN <<>>
             ELSE IF lower_value(environ[env_var]) \in {"true", "1"}
             THEN <<last>>
             ELSE <<last, environ[env_var]>>
        ELSE <<>>

\* process_environment_variables: for each action of the parser in turn,
\* sys.argv gains the option and the value of its environment variable
RECURSIVE process_environment_variables(_, _, _, _)
process_environment_variables(actions, k, environ, argv) ==
    IF k > Len(actions)
    THEN argv
    ELSE process_environment_variables(
             actions, k + 1, environ,
             argv \o injected(actions[k], environ, argv))

\* how argparse reads one argument string: the option it names, if any,
\* and the value attached to it.  A long option may be written with
\* =value or shortened to an unambiguous prefix, a short one may be
\* followed by its value at once.
reads(arg) ==
    CASE arg \in {"-n", "--record_name", "--record_n"}
           -> [dest |-> "record_name", value |-> None]
      [] arg \in {"--record_name=cli", "-ncli"}
           -> [dest |-> "record_name", value |-> "cli"]
      [] arg \in {"-l", "--log"}
           -> [dest |-> "log", value |-> None]
      [] arg \in {"--log=DEBUG", "-lDEBUG"}
           -> [dest |-> "log", value |-> "DEBUG"]
      [] arg = "--delete"
           -> [dest |-> "delete", value |-> None]
      [] arg \in {"-q", "--query_ip", "--query_ipv4"}
           -> [dest |-> "query_url", value |-> None]
      [] arg = "--query_ipv4=http://cli"
           -> [dest |-> "query_url", value |-> "http://cli"]
      [] OTHER -> [dest |-> None, value |-> arg]

\* the namespace before an argument is read: the defaults
defaults ==
    [record_name |-> None, log |-> "INFO", delete |-> "False",
     query_url |-> None, remaining |-> <<>>, error |-> "none"]

\* the action of the parser an argument string names
action_of(actions, dest) ==
    actions[CHOOSE k \in DOMAIN actions : actions[k].dest = dest]

\* parse_known_args from argument i on: an option takes the value attached
\* to it, else the next argument unless that is an option, else its const;
\* a later occurrence of an option replaces an earlier one; what the parser
\* does not know is left over
RECURSIVE parse_known_args(_, _, _, _)
parse_known_args(actions, argv, i, ns) ==
    IF i > Len(argv)
    THEN ns
    ELSE LET r == reads(argv[i])
             known == \E k \in DOMAIN actions : actions[k].dest = r.dest
             value_next == /\ i < Len(argv)
                           /\ reads(argv[i + 1]).dest = None
         IN  IF ~known
             THEN parse_known_args(actions, argv, i + 1,
                      [ns EXCEPT !.remaining = Append(@, argv[i])])
             ELSE IF r.value # None
             THEN parse_known_args(actions, argv, i + 1,
                      [ns EXCEPT ![r.dest] = r.value])
             ELSE IF action_of(actions, r.dest).nargs = "0"
             THEN parse_known_args(actions, argv, i + 1,
                      [ns EXCEPT ![r.dest] =
                                    action_of(actions, r.dest).const])
             ELSE IF value_next
             THEN parse_known_args(actions, argv, i + 2,
                      [ns EXCEPT ![r.dest] = argv[i + 1]])
             ELSE IF action_of(actions, r.dest).nargs = "?"
             THEN parse_known_args(actions, argv, i + 1,
                      [ns EXCEPT ![r.dest] =
                                    action_of(actions, r.dest).const])
             ELSE [ns EXCEPT !.error = "expected one argument"]

\* the parser's check of its required arguments: without --list and
\* --domains the record name is one, and argparse exits with status 2
\* when no argument names it
required(argv, ns) ==
    IF ns.error = "none"
           /\ \A i \in DOMAIN argv : reads(argv[i]).dest # "record_name"
    THEN [ns EXCEPT !.error = "the following arguments are required"]
    ELSE ns

\* process_commandline: the environment is folded in for pre_parser and
\* sys.argv is parsed with it, then the same for parser; sys.argv keeps
\* what was added the first time
process_commandline(argv, environ) ==
    LET first == process_environment_variables(pre_parser, 1, environ, argv)
        second == process_environment_variables(parser, 1, environ, first)
    IN  [argv |-> second,
         args |-> required(second,
                           parse_known_args(parser, second, 1, defaults))]

\* the ways each option is written on the command line
Written ==
    [record_name : {<<>>, <<"-n", "cli">>, <<"--record_name", "cli">>,
                    <<"--record_name=cli">>, <<"-ncli">>,
                    <<"--record_n", "cli">>},
     log : {<<>>, <<"-l", "DEBUG">>, <<"--log", "DEBUG">>,
            <<"--log=DEBUG">>},
     delete : {<<>>, <<"--delete">>},
     query_url : {<<>>, <<"-q">>, <<"--query_ipv4">>,
                  <<"--query_ip", "http://cli">>,
                  <<"--query_ipv4=http://cli">>}]

\* the environments: each variable unset or set
Environments ==
    [TID_RECORD_NAME : {None, "env"},
     TID_LOG : {None, "ERROR"},
     TID_DELETE : {None, "true"},
     TID_QUERY_IPV4 : {None, "true", "TRUE", "false", "http://env"}]

NoCmdline ==
    [pc |-> "start", given |-> <<>>,
     environ |-> [TID_RECORD_NAME |-> None, TID_LOG |-> None,
                  TID_DELETE |-> None, TID_QUERY_IPV4 |-> None],
     argv |-> <<>>, args |-> defaults]

\* the program reads its command line
ProcessCommandline ==
    /\ cmdline.pc = "start"
    /\ LET done == process_commandline(cmdline.given, cmdline.environ)
       IN  cmdline' = [cmdline EXCEPT !.pc = "parsed", !.argv = done.argv,
                                      !.args = done.args]
    /\ UNCHANGED <<tokenVars, registrarVars, classifyVars, keyVars,
                   recordVars, runVars>>

InitCmdline ==
    \E w \in Written, environ \in Environments :
        cmdline = [NoCmdline EXCEPT
                     !.given = w.record_name \o w.log \o w.delete
                                   \o w.query_url,
                     !.environ = environ]

IdleCmdline == cmdline = NoCmdline

NextCmdline == ProcessCommandline

-----------------------------------------------------------------------------
(* The specifications *)

NextToken == GetToken \/ AuthenticatedRequest \/ Tick

\* an AccessToken just constructed
TokenStart ==
    InitToken /\ IdleRegistrar /\ IdleClassify /\ IdleKey /\ IdleRecord
        /\ IdleRun /\ IdleCmdline

SpecToken == TokenStart /\ [][NextToken]_vars

\* a TransipInterface just constructed
RegistrarStart ==
    IdleToken /\ InitRegistrar /\ IdleClassify /\ IdleKey /\ IdleRecord
        /\ IdleRun /\ IdleCmdline

SpecRegistrar == RegistrarStart /\ [][NextRegistrar]_vars

\* a target and a zone listing, before record_state_in_domain is called
ClassifyStart ==
    IdleToken /\ IdleRegistrar /\ InitClassify /\ IdleKey /\ IdleRecord
        /\ IdleRun /\ IdleCmdline

SpecClassify == ClassifyStart /\ [][NextClassify]_vars

\* AccessToken construction on bounded key texts
KeyStart ==
    IdleToken /\ IdleRegistrar /\ IdleClassify /\ InitKey /\ IdleRecord
        /\ IdleRun /\ IdleCmdline

SpecKey == KeyStart /\ [][NextKey]_vars

\* the arguments of one DnsRecord, before it is constructed
RecordStart ==
    IdleToken /\ IdleRegistrar /\ IdleClassify /\ IdleKey /\ InitRecord
        /\ IdleRun /\ IdleCmdline

SpecRecord == RecordStart /\ [][NextRecord]_vars

\* a zone and the arguments of a run, before the program is run
RunStart ==
    IdleToken /\ IdleRegistrar /\ IdleClassify /\ IdleKey /\ IdleRecord
        /\ InitRun /\ IdleCmdline

SpecRun == RunStart /\ [][NextRun]_vars

\* a command line and an environment, before they are processed
CmdlineStart ==
    IdleToken /\ IdleRegistrar /\ IdleClassify /\ IdleKey /\ IdleRecord
        /\ IdleRun /\ InitCmdline

SpecCmdline == CmdlineStart /\ [][NextCmdline]_vars

-----------------------------------------------------------------------------
(* The access token's claims, checked under SpecToken *)

\* C1: a getToken call made while a token is cached and at most 90% of its
\* lifetime has passed since it was issued (exactly 90% included) returns
\* the cached token and sends no request to the authentication endpoint.
C1_CachedWhileFresh ==
    ( /\ lastGet.kind # "none"
      /\ lastGet.tokenBefore # NoToken
      /\ 10 * (lastGet.at - lastGet.epochBefore) <= 9 * time_to_live )
    => /\ lastGet.kind = "returned"
       /\ lastGet.token = lastGet.tokenBefore
       /\ lastGet.requests = 0
       /\ lastGet.epochAfter = lastGet.epochBefore

\* a call at exactly 90% of the lifetime was served from the cache
C1_Witness ==
    /\ lastGet.kind = "returned"
    /\ lastGet.tokenBefore # NoToken
    /\ lastGet.at > lastGet.epochBefore
    /\ 10 * (lastGet.at - lastGet.epochBefore) = 9 * time_to_live
    /\ lastGet.requests = 0

\* C2: a getToken call made with no cached token, or with more than 90% of
\* the lifetime passed, sends exactly one request; when it returns, it
\* returns the token issued for that request, which differs from the one
\* cached before, and the issue time is the time of the return, so that
\* the token is fresh again.
C2_RefreshWhenStale ==
    ( /\ lastGet.kind # "none"
      /\ \/ lastGet.tokenBefore = NoToken
         \/ 10 * (lastGet.at - lastGet.epochBefore) > 9 * time_to_live )
    => /\ lastGet.requests = 1
       /\ lastGet.kind = "returned" =>
            /\ lastGet.token = response_token(_token_request_parameters(lastGet.at))
            /\ lastGet.token # lastGet.tokenBefore
            /\ lastGet.token # NoToken
            /\ lastGet.epochAfter = lastGet.returnedAt
            /\ 10 * (lastGet.returnedAt - lastGet.epochAfter) <= 9 * time_to_live

\* a stale cached token was replaced by a call that took time
C2_Witness ==
    /\ lastGet.kind = "returned"
    /\ lastGet.tokenBefore # NoToken
    /\ 10 * (lastGet.at - lastGet.epochBefore) > 9 * time_to_live
    /\ lastGet.requests = 1
    /\ lastGet.returnedAt > lastGet.at
    /\ _token = lastGet.token

\* C3: every authenticated request carries a token whose age, counted from
\* its issue time, is at most 90% of the lifetime; when the cached token
\* was missing or stale as the request was built, the request carries a
\* token fetched for it.
C3_NeverUsedPast90 ==
    carried.kind = "sent" =>
        /\ carried.token # NoToken
        /\ 10 * (carried.sent - carried.issued) <= 9 * time_to_live
        /\ ( \/ carried.tokenBefore = NoToken
             \/ 10 * (carried.at - carried.epochBefore) > 9 * time_to_live )
           => /\ carried.token # carried.tokenBefore
              /\ carried.issued >= carried.at

\* a request went out with a token cached for a while, and another one
\* after the cached token had gone stale
C3_Witness ==
    /\ carried.kind = "sent"
    /\ carried.tokenBefore # NoToken
    /\ 10 * (carried.at - carried.epochBefore) > 9 * time_to_live
    /\ carried.token # carried.tokenBefore

-----------------------------------------------------------------------------
(* The registrar client's claims, checked under SpecRegistrar *)

\* the responses are n conflicts and nothing else
AllConflicts(responses, n) ==
    /\ Len(responses) = n
    /\ \A i \in 1..n : responses[i] = 409

\* the number of conflicts the client logged
ConflictsLogged == Cardinality({i \in DOMAIN call.log : call.log[i] = 409})

\* C4: when the endpoint answers k conflicts and then a 20x, with k at
\* most the retry count, the call returns that response after k + 1
\* requests with k conflicts logged; and a call that has seen k <= retry
\* conflicts and nothing else has not raised: it goes on to the next request.
C4_SuccessAfterConflicts ==
    /\ \A k \in 0..retry :
         ( /\ Len(call.responses) = k + 1
           /\ AllConflicts(SubSeq(call.responses, 1, k), k)
           /\ ~is_error(call.responses[k + 1]) )
         => /\ call.pc = "returned"
            /\ call.result = call.responses[k + 1]
            /\ call.requests = k + 1
            /\ ConflictsLogged = k
    /\ \A k \in 1..retry :
         AllConflicts(call.responses, k)
         => call.pc = "running" /\ call.requests = k

\* a call returned a 20x after as many conflicts as there are retries
C4_Witness ==
    /\ retry = MaxRetry
    /\ call.pc = "returned"
    /\ call.result = 204
    /\ call.requests = retry + 1
    /\ ConflictsLogged = retry

\* C5: when the endpoint answers more conflicts than the retry count, the
\* call has raised the last response's HTTP error after retry + 1 requests,
\* and no call ever sends more than retry + 1 requests.
C5_RaiseWhenRetriesExhausted ==
    /\ call.requests <= retry + 1
    /\ Len(call.responses) = call.requests
    /\ ( /\ Len(call.responses) > retry
         /\ AllConflicts(call.responses, Len(call.responses)) )
       => /\ call.pc = "raised"
          /\ call.result = 409
          /\ call.requests = retry + 1

\* a call with retries configured raised on the conflict after the last retry
C5_Witness ==
    /\ retry = 2
    /\ call.pc = "raised"
    /\ call.result = 409
    /\ call.requests = 3
    /\ AllConflicts(call.responses, 3)

\* C6: an error response other than 409 is the last response of its call:
\* the call has raised that error and no request follows it, on the first
\* attempt or after conflicts, whatever the retry count.
C6_OtherErrorsNotRetried ==
    \A i \in DOMAIN call.responses :
        (is_error(call.responses[i]) /\ call.responses[i] # 409)
        => /\ i = Len(call.responses)
           /\ call.requests = i
           /\ call.pc = "raised"
           /\ call.result = call.responses[i]

\* a 404 that followed a conflict was raised with retries still left
C6_Witness ==
    /\ retry = MaxRetry
    /\ call.pc = "raised"
    /\ call.responses = <<409, 404>>
    /\ call.result = 404

-----------------------------------------------------------------------------
(* The reconciliation claims, checked under SpecClassify *)

\* the record agrees with the target's non-None name and type, ignoring
\* case, and with its ttl exactly
MatchesKey(target, record) ==
    /\ target.name # None => casefold(target.name) = casefold(record.name)
    /\ target.rtype # None => casefold(target.rtype) = casefold(record.type)
    /\ target.expire # NoTTL => target.expire = record.expire

\* the positions of the zone records that match the requested target
Matching ==
    {i \in DOMAIN domain_records :
        MatchesKey(outcome.request, domain_records[i])}

\* the one matching record, when there is exactly one
TheMatch == domain_records[CHOOSE i \in Matching : TRUE]

\* C7: with more than one zone record matching the target's name, type
\* and ttl, record_state_in_domain raises DuplicateDnsRecords and returns
\* no state, whatever the target's content, and the error lists the
\* content of every matching record.
C7_DuplicatesRaise ==
    (outcome.pc = "done" /\ Cardinality(Matching) > 1)
    => /\ outcome.raised = "DuplicateDnsRecords"
       /\ outcome.state = "none"
       /\ Len(outcome.records_data) = Cardinality(Matching)
       /\ \A i \in Matching :
             \E j \in DOMAIN outcome.records_data :
                 outcome.records_data[j] = domain_records[i].content

\* duplicates were refused although the target's content is that of
\* exactly one of them
C7_Witness ==
    /\ outcome.pc = "done"
    /\ outcome.raised = "DuplicateDnsRecords"
    /\ outcome.request.content # None
    /\ Cardinality({i \in Matching :
            domain_records[i].content = outcome.request.content}) = 1
    /\ Cardinality(Matching) = 2

\* C8: record_state_in_domain returns NOTFOUND exactly when no zone record
\* matches the target's non-None name, type and ttl.
C8_NotFoundIffNoMatch ==
    outcome.pc = "done" =>
        (outcome.state = "NOTFOUND" <=> Matching = {})

\* NOTFOUND for a target whose name, type and content are those of the
\* only zone record and whose ttl differs from it
C8_Witness ==
    /\ outcome.pc = "done"
    /\ outcome.state = "NOTFOUND"
    /\ Len(domain_records) = 1
    /\ outcome.request.name = domain_records[1].name
    /\ outcome.request.rtype = domain_records[1].type
    /\ outcome.request.content = domain_records[1].content
    /\ outcome.request.expire # NoTTL
    /\ outcome.request.expire # domain_records[1].expire

\* C9: with exactly one match and the target's content set, the state is
\* FOUND_SAME when the two contents are equal ignoring case and
\* FOUND_DIFFERENT otherwise.
C9_ContentComparedIgnoringCase ==
    ( /\ outcome.pc = "done"
      /\ Cardinality(Matching) = 1
      /\ outcome.request.content # None )
    => outcome.state =
         IF casefold(outcome.request.content) = casefold(TheMatch.content)
         THEN "FOUND_SAME" ELSE "FOUND_DIFFERENT"

\* C10: with exactly one match and the target's content unset, the
\* target's content becomes the match's content and the state is
\* FOUND_NO_REQUEST_DATA; that state is returned in no other case.
C10_NoRequestData ==
    outcome.pc = "done" =>
        /\ (Cardinality(Matching) = 1 /\ outcome.request.content = None)
           => /\ outcome.state = "FOUND_NO_REQUEST_DATA"
              /\ dns_record.content = TheMatch.content
        /\ outcome.state = "FOUND_NO_REQUEST_DATA"
           => (Cardinality(Matching) = 1 /\ outcome.request.content = None)

\* a target given by name and type alone took the content of its match
C10_Witness ==
    /\ outcome.pc = "done"
    /\ outcome.state = "FOUND_NO_REQUEST_DATA"
    /\ outcome.request.content = None
    /\ outcome.request.name # None
    /\ Len(domain_records) = 2
    /\ dns_record.content = "2001:db8::2"

\* the states that report a record as found
FoundStates == {"FOUND_SAME", "FOUND_DIFFERENT", "FOUND_NO_REQUEST_DATA"}

\* C11: when record_state_in_domain returns a found state, the target's
\* ttl is the caller's ttl if one was given and the match's ttl otherwise,
\* and the target's content and ttl are both set (and with them every
\* field of a target given with a name and a type), also when content and
\* ttl were both omitted.
C11_TtlBackfilled ==
    (outcome.pc = "done" /\ outcome.state \in FoundStates)
    => /\ Cardinality(Matching) = 1
       /\ dns_record.expire = IF outcome.request.expire # NoTTL
                              THEN outcome.request.expire
                              ELSE TheMatch.expire
       /\ dns_record.expire # NoTTL
       /\ dns_record.content # None
       /\ dns_record.name = outcome.request.name
       /\ dns_record.rtype = outcome.request.rtype

\* a target given by name and type alone left with the ttl and the
\* content of its match
C11_Witness ==
    /\ outcome.pc = "done"
    /\ outcome.state = "FOUND_NO_REQUEST_DATA"
    /\ outcome.request.name # None
    /\ outcome.request.rtype # None
    /\ outcome.request.expire = NoTTL
    /\ outcome.request.content = None
    /\ dns_record.expire = 3600
    /\ dns_record.content = "2001:db8::2"

-----------------------------------------------------------------------------
(* The dispatcher's claims, checked under SpecClassify *)

\* C12: set_dns_record issues no registrar call for FOUND_SAME, exactly
\* one patch_dns_entry call and nothing else for FOUND_DIFFERENT, and
\* exactly one post_dns_entry call and nothing else for NOTFOUND with a ttl.
C12_SetByState ==
    dispatch.action = "set" =>
        /\ outcome.state = "FOUND_SAME"
           => dispatch.calls = <<>> /\ dispatch.raised = "none"
        /\ outcome.state = "FOUND_DIFFERENT"
           => /\ Len(dispatch.calls) = 1
              /\ dispatch.calls[1].method = "patch"
        /\ (outcome.state = "NOTFOUND" /\ dns_record.expire # NoTTL)
           => /\ Len(dispatch.calls) = 1
              /\ dispatch.calls[1].method = "post"

\* a record found with the requested content was left alone
C12_Witness ==
    /\ dispatch.action = "set"
    /\ outcome.state = "FOUND_SAME"
    /\ dispatch.calls = <<>>
    /\ outcome.request.expire = NoTTL

\* C13: set_dns_record with state NOTFOUND and no ttl raises
\* DnsRecordNotFoundAndNoTTL and issues no registrar call.
C13_NotFoundNoTtlRaises ==
    ( /\ dispatch.action = "set"
      /\ outcome.state = "NOTFOUND"
      /\ dns_record.expire = NoTTL )
    => /\ dispatch.raised = "DnsRecordNotFoundAndNoTTL"
       /\ dispatch.calls = <<>>

\* a record missing from a zone that holds others, requested without ttl
C13_Witness ==
    /\ dispatch.action = "set"
    /\ outcome.state = "NOTFOUND"
    /\ dns_record.expire = NoTTL
    /\ dns_record.content # None
    /\ Len(domain_records) > 0
    /\ dispatch.raised = "DnsRecordNotFoundAndNoTTL"

\* C14: delete_dns_record issues no registrar call for NOTFOUND and
\* exactly one delete_dns_entry call, and no other call, for every other
\* state.
C14_DeleteByState ==
    dispatch.action = "delete" =>
        IF outcome.state = "NOTFOUND"
        THEN dispatch.calls = <<>> /\ dispatch.raised = "none"
        ELSE /\ Len(dispatch.calls) = 1
             /\ dispatch.calls[1].method = "delete"

\* a delete by name and type alone issued its one delete call
C14_Witness ==
    /\ dispatch.action = "delete"
    /\ outcome.state = "FOUND_NO_REQUEST_DATA"
    /\ Len(dispatch.calls) = 1
    /\ dispatch.calls[1].method = "delete"
    /\ dispatch.raised = "none"

-----------------------------------------------------------------------------
(* The key handling claims, checked under SpecKey *)

\* an argument of the constructor that was given, whatever its value
supplied_text(v) == v # NoText

supplied_path(v) == v # None

\* C15: constructing an AccessToken succeeds only when exactly one of
\* private_key and private_key_file is supplied; supplying both, or
\* neither, raises ValueError before the key is parsed and without a
\* request to the authentication endpoint.
C15_ExactlyOneKeySource ==
    key.pc = "constructed" =>
        LET one == supplied_text(key.private_key)
                       # supplied_path(key.private_key_file)
        IN  /\ key.result.raised = "none" => one
            /\ ~one => /\ key.result.raised = "ValueError"
                       /\ key.result.parses = 0
                       /\ key.requests = 0

\* C16: serialize_private_key parses the text first and repairs it, once,
\* only if that parse failed, then parses once more; a key that parses at
\* first is accepted without repair; a second parse failure raises
\* AccessTokenPrivateKeyUnrecognized and a text the repair pattern does
\* not match raises AccessTokenPrivateKeyInvalidPemFormat; no run has more
\* than two parses or more than one repair.
C16_RepairOnlyAfterFailedParse ==
    (key.pc = "constructed" /\ key.result.parses >= 1) =>
        /\ key.result.parses <= 2
        /\ key.result.repairs <= 1
        /\ key.result.parsed[1]
           => /\ key.result.raised = "none"
              /\ key.result.parses = 1
              /\ key.result.repairs = 0
        /\ ~key.result.parsed[1]
           => /\ key.result.repairs = 1
              /\ key.result.raised \in
                    {"none", "AccessTokenPrivateKeyUnrecognized",
                     "AccessTokenPrivateKeyInvalidPemFormat"}
              /\ key.result.raised = "AccessTokenPrivateKeyUnrecognized"
                 <=> (key.result.parses = 2 /\ ~key.result.parsed[2])

\* the texts whose BEGIN and END lines are fenced by exactly five dashes
\* on each side
WellFormedPems ==
    { Fence \o <<"BEGIN", "SP", "K">> \o Fence \o sep \o <<"b">>
            \o eol \o Fence \o <<"END", "SP", "K">> \o Fence \o last :
        sep \in {<<"LF">>, <<"CR", "LF">>},
        eol \in {<<"LF">>, <<"CR", "LF">>},
        last \in {<<>>, <<"LF">>} }

\* C17: rebuild_private_key_pem applied to a well-formed PEM returns the
\* same text, and applied to its own output returns that output unchanged.
C17_RebuildIdempotent ==
    /\ (key.pc = "rebuilt" /\ key.text \in WellFormedPems)
       => key.rebuilt = [raised |-> "none", pem |-> key.text]
    /\ key.pc = "rebuilt twice" => key.again = key.rebuilt

-----------------------------------------------------------------------------
(* The client construction claims, checked under SpecRegistrar *)

\* C18: a TransipInterface given a login or a key together with an access
\* token raises ValueError at construction, and a client built from an
\* access token sends no request to the authentication endpoint while it
\* performs its registrar calls.
C18_TokenOrCredentials ==
    /\ ( /\ client.access_token # None
         /\ (client.login # None \/ client.private_key_pem # None) )
       => /\ client.raised = "ValueError"
          /\ call = NoCall
    /\ (client.access_token # None /\ client.raised = "none")
       => client.auth_requests = 0

\* a client built from a token alone finished a call that was retried
C18_Witness ==
    /\ client.access_token = "token"
    /\ client.login = None
    /\ client.private_key_pem = None
    /\ client.raised = "none"
    /\ call.pc = "returned"
    /\ call.requests >= 2
    /\ client.auth_requests = 0

-----------------------------------------------------------------------------
(* The DnsRecord claims, checked under SpecRecord *)

\* str.lower() on the fixed record types used here
lower(s) ==
    CASE s = "A" -> "a"
      [] s = "AAAA" -> "aaaa"
      [] s = "TXT" -> "txt"
      [] OTHER -> s

\* t names one of the fixed record types in upper or in lower case
NamesRecordType(t) ==
    \E T \in DNS_RECORD_TYPES : t = T \/ t = lower(T)

\* C19: a DnsRecord with a type that is present and is not one of the
\* fixed record types raises ValueError; a type naming a fixed record type
\* in upper or lower case is accepted and stored as given; an absent type
\* is accepted.
C19_RecordTypeValidated ==
    new_record.pc = "made" =>
        LET t == new_record.args.rtype
        IN  /\ (t # None /\ ~NamesRecordType(t))
               => new_record.made.raised = "ValueError"
            /\ (t = None \/ NamesRecordType(t))
               => /\ new_record.made.raised = "none"
                  /\ new_record.made.rtype = t

\* a record was made with its type in lower case
C19_Witness ==
    /\ new_record.pc = "made"
    /\ new_record.args.rtype = "a"
    /\ new_record.made.raised = "none"
    /\ new_record.made.rtype = "a"
    /\ new_record.made.name = "home"

-----------------------------------------------------------------------------
(* The claims about main(), checked under SpecClassify *)

\* C20: a run without error ends with code 0; a run that ends in an HTTP
\* error exits the process with that response's status code, for every
\* such error; any other error ends with a non-zero sentinel code.
C20_ExitByOutcome ==
    run.pc = "ended" =>
        /\ run.raised = "none" => (run.kind = "return" /\ run.code = 0)
        /\ run.raised = "HTTPError"
           => /\ run.kind = "SystemExit"
              /\ run.code = run.response.status_code
        /\ run.raised \notin {"none", "HTTPError"}
           => (run.kind = "return" /\ run.code = 0 - 1)

-----------------------------------------------------------------------------
(* The claims about a failed token request, checked under SpecToken *)

\* C26: a getToken call whose token request fails raises and leaves the
\* cached token and the recorded issue time as they were, and the getToken
\* call after a failed one sends a request again.
C26_FailedRequestKeepsToken ==
    [][ /\ (lastGet' # lastGet /\ lastGet'.kind = "raised")
           => /\ _token' = _token
              /\ _token_epoch' = _token_epoch
              /\ lastGet'.requests = 1
        /\ (lastGet.kind = "raised" /\ lastGet' # lastGet)
           => lastGet'.requests = 1 ]_vars

\* a request was aborted by a failed refresh of a stale cached token, and
\* a later getToken call replaced that token with one request
C26_Witness ==
    /\ carried.kind = "aborted"
    /\ carried.tokenBefore # NoToken
    /\ lastGet.kind = "returned"
    /\ lastGet.requests = 1
    /\ lastGet.tokenBefore = carried.tokenBefore
    /\ lastGet.epochBefore = carried.epochBefore
    /\ lastGet.at >= carried.sent
    /\ _token # carried.tokenBefore

-----------------------------------------------------------------------------
(* The claims about what the delete action sends, checked under SpecClassify *)

\* C28: whenever the delete action calls delete_dns_entry, the record it
\* sends carries the content and the ttl of the one zone record that
\* matched the target, in every found state.
C28_DeleteSendsTheMatch ==
    (dispatch.action = "delete" /\ Len(dispatch.calls) = 1)
    => /\ Cardinality(Matching) = 1
       /\ dispatch.calls[1].dns_record.content = TheMatch.content
       /\ dispatch.calls[1].dns_record.expire = TheMatch.expire

-----------------------------------------------------------------------------
(* The claims about the command line, checked under SpecCmdline *)

\* the option is written on the command line, in any of its forms
appears(action, argv) ==
    \E i \in DOMAIN argv : reads(argv[i]).dest = action.dest

\* what the value of an option's environment variable stands for: the
\* value itself, and for a switch or an optional value true for the
\* option given bare and false for the option left out
env_value(action, v) ==
    IF action.nargs = "None" THEN v
    ELSE IF lower_value(v) \in {"true", "1"} THEN action.const
    ELSE IF lower_value(v) \in {"false", "0"} THEN action.default
    ELSE v

\* C22: for every option, the value given on the command line is used
\* when the option is written there, in whatever form; otherwise the value
\* of its TID_ environment variable when that is set; otherwise the
\* default.
C22_ExplicitOverEnvironment ==
    (cmdline.pc = "parsed" /\ cmdline.args.error = "none") =>
        \A k \in DOMAIN parser :
            LET action == parser[k]
                v == cmdline.environ[
                         deduce_environment_variable(action.option_strings)]
                alone == parse_known_args(parser, cmdline.given, 1, defaults)
            IN  cmdline.args[action.dest] =
                    IF appears(action, cmdline.given)
                    THEN alone[action.dest]
                    ELSE IF v # None
                    THEN env_value(action, v)
                    ELSE action.default

-----------------------------------------------------------------------------
(* The claims about one invocation, checked under SpecRun *)

\* what the constructors raise on the parameters of a run
InputErrors ==
    {"ValueError", "AccessTokenPrivateKeyInvalidPemFormat",
     "AccessTokenPrivateKeyUnrecognized"}

\* C21: a run that ends in an input error (no key source or both, a login
\* or a key next to a token, a record type that is not known, a key that
\* cannot be parsed) has made no network call, the query of the IP-echo
\* service included.
C21_InputErrorsBeforeNetwork ==
    (inv.pc # "ready" /\ inv.run.raised \in InputErrors)
    => inv.run.net = <<>>

-----------------------------------------------------------------------------
(* The claims about filter_domain_records, checked under SpecClassify *)

\* the zone record agrees with every field the target has
Agrees(target, record, ignore_content) ==
    /\ target.name # None => casefold(target.name) = casefold(record.name)
    /\ target.rtype # None => casefold(target.rtype) = casefold(record.type)
    /\ target.expire # NoTTL => target.expire = record.expire
    /\ (target.content # None /\ ~ignore_content)
       => casefold(target.content) = casefold(record.content)

\* the places of the listing whose record agrees with the target
Kept(ignore_content) ==
    {i \in DOMAIN domain_records :
        Agrees(dns_record, domain_records[i], ignore_content)}

\* C23: filter_domain_records returns the records of the listing that
\* agree with every field the target has, each once and in the order of
\* the listing: name, type and content compared ignoring case, the ttl
\* exactly, and the content not at all when ignore_content is set; a
\* target without fields gets the whole listing back.
C23_FilterKeepsTheAgreeing ==
    \A ignore_content \in BOOLEAN :
        LET out == filter_domain_records(domain_records, dns_record,
                                         ignore_content)
            kept == Kept(ignore_content)
        IN  /\ Len(out) = Cardinality(kept)
            /\ \A i \in kept :
                   out[Cardinality({j \in kept : j <= i})] = domain_records[i]
            /\ dns_record = NoOutcome.request => out = domain_records

\* a listing of two records was classified: the second agrees with the
\* target but for its content, and the first differs in its ttl
C23_Witness ==
    /\ outcome.pc = "done"
    /\ Len(domain_records) = 2
    /\ outcome.request.content # None
    /\ outcome.request.name = "WWW"
    /\ Kept(TRUE) = {2}
    /\ Kept(FALSE) = {}
    /\ domain_records[1].name = "www"
    /\ domain_records[1].type = domain_records[2].type
    /\ domain_records[1].expire # domain_records[2].expire
    /\ filter_domain_records(domain_records, outcome.request, TRUE)
          = <<domain_records[2]>>

-----------------------------------------------------------------------------
(* The claims about the list action, checked under SpecRun *)

\* the record the command line asks for, when no query option is given
Asked ==
    [name |-> args.record_name, rtype |-> args.record_type,
     expire |-> args.record_ttl, content |-> args.record_data]

\* C24: a run with --list whose listing call returned displays the
\* records of the zone that agree with the filter given on the command
\* line, however many there are, and raises nothing.
C24_ListDisplaysEveryMatch ==
    (inv.pc # "ready" /\ args.list /\ args.query_url = None
        /\ inv.run.listed)
    => /\ inv.run.raised = "none"
       /\ inv.run.displayed =
            SelectSeq(inv.held, LAMBDA r : Agrees(Asked, r, FALSE))

-----------------------------------------------------------------------------
(* The claims about execute_requested_action, checked under SpecRun *)

\* C25: a run takes one action, --list before --delete before --domains
\* before set.  With --list no record is created, updated or deleted
\* whatever the other flags and the state of the record; with --delete
\* and no --list the only registrar call that changes the zone is a
\* delete; a record is created or updated only when none of the three
\* flags is given.
C25_OneActionByPrecedence ==
    (inv.pc # "ready" /\ inv.run.action # "none") =>
        /\ inv.run.action =
              IF args.list THEN "list"
              ELSE IF args.delete THEN "delete"
              ELSE IF args.domains THEN "domains"
              ELSE "set"
        /\ args.list => inv.run.calls = <<>>
        /\ \A i \in DOMAIN inv.run.calls :
              /\ inv.run.calls[i].method = "delete"
                 => (~args.list /\ args.delete)
              /\ inv.run.calls[i].method \in {"post", "patch"}
                 => (~args.list /\ ~args.delete /\ ~args.domains)

\* a run with --list and --delete found its record in the zone, displayed
\* it and made no registrar call but the listing
C25_Witness ==
    /\ inv.pc = "done"
    /\ args.list /\ args.delete
    /\ inv.run.classified
    /\ inv.run.state \in FoundStates
    /\ inv.run.action = "list"
    /\ inv.run.displayed # <<>>
    /\ inv.run.calls = <<>>
    /\ inv.run.net = <<"get">>
    /\ held_zone = inv.held

-----------------------------------------------------------------------------
(* The claims about the zone across set runs, checked under SpecRun *)

\* no two records of the zone share their name and their type
NoTwoAlike(held) ==
    \A i \in DOMAIN held, j \in DOMAIN held :
        (held[i].name = held[j].name /\ held[i].type = held[j].type)
        => i = j

\* C27: a set run (name, type, content and possibly a ttl) on a zone in
\* which no two records share name and type leaves the zone so; hence
\* every sequence of set runs does.
C27_SetKeepsNameTypeUnique ==
    [][ (inv'.pc # inv.pc /\ inv'.run.action = "set"
            /\ NoTwoAlike(held_zone))
        => NoTwoAlike(held_zone') ]_vars

-----------------------------------------------------------------------------
(* The claims about the order of the calls of a run, checked under SpecRun *)

-----------------------------------------------------------------------------
(* The claims about a repeated set run, checked under SpecRun *)

\* the command line names the whole record: name, type, ttl and a content
\* or a query option
FullySpecified ==
    /\ args.record_name # None
    /\ args.record_type # None
    /\ args.record_ttl # NoTTL
    /\ (args.record_data # None \/ args.query_url # None)

\* C30: when a set run for a fully specified record ended without error
\* and the run is repeated with the same arguments on the zone as the
\* first run left it, the second run, once its listing returned, finds
\* the record FOUND_SAME and makes no create, update or delete call.
C30_SetTwiceIsSame ==
    (inv.pc = "again" /\ inv.first.action = "set" /\ FullySpecified
        /\ inv.run.listed)
    => /\ inv.run.state = "FOUND_SAME"
       /\ inv.run.calls = <<>>
       /\ held_zone = inv.held

\* the first run patched a record of another content, the second run
\* found the record as asked for and left the zone alone
C30_Witness ==
    /\ inv.pc = "again"
    /\ FullySpecified
    /\ inv.first.action = "set"
    /\ inv.first.state = "FOUND_DIFFERENT"
    /\ methods(inv.first.calls) = <<"patch">>
    /\ inv.first.raised = "none"
    /\ inv.run.state = "FOUND_SAME"
    /\ inv.run.calls = <<>>
    /\ Len(held_zone) = 2

====
